---- MODULE Spec2Model ----
(***************************************************************************)
(* State-machine model of task02.py: SlidingWindowRateLimiter and          *)
(* ThrottlingRateLimiter.  Time is counted in integer clock ticks; every   *)
(* call of time.time() is a reading of a clock that never goes backward,   *)
(* except in SpecAnyClock, where a reading is any tick.                    *)
(***************************************************************************)
EXTENDS Integers, Sequences, FiniteSets, TLC

\* ---- bounds of the model ------------------------------------------------
MaxTime == 4         \* last clock tick
MaxStep == 2         \* largest advance of the clock between two readings
MaxWindow == 3       \* largest window_size tried
MaxReq == 2          \* largest max_requests tried
MaxInterval == 2     \* largest min_interval tried
MaxHist == 3         \* cap on the recorded history of accepted events

Users == {"u1", "u2"}
Threads == {"a", "b"}
ClockUsers == {"u1"}
Times == 0 .. MaxTime
NoUser == "nobody"

\* constructor arguments tried, valid and invalid ones
WindowSizes == {-1} \cup (2 .. MaxWindow)
RequestLimits == 0 .. MaxReq
MinIntervals == {-1, 0} \cup (2 .. MaxInterval)

VARIABLES
    kind,               \* which class the limiter object is
    window_size,        \* SlidingWindowRateLimiter.window_size
    max_requests,       \* SlidingWindowRateLimiter.max_requests
    user_messages,      \* SlidingWindowRateLimiter.user_messages: dict user -> deque
    min_interval,       \* ThrottlingRateLimiter.min_interval
    user_last_message,  \* ThrottlingRateLimiter.user_last_message: dict user -> time
    now,                \* the last value time.time() returned
    clock_mode,         \* "monotone": readings never decrease; "any": no order
    hist,               \* per user, every timestamp an accepted record_message stored
    lastOp,             \* the last completed call: name, user, clock reading, result
    th                  \* per thread, the record_message call it is running

vars == <<kind, window_size, max_requests, user_messages, min_interval,
          user_last_message, now, clock_mode, hist, lastOp, th>>

config == <<kind, window_size, max_requests, min_interval, clock_mode>>

\* ---- helpers --------------------------------------------------------------
EmptyDict == [u \in {} |-> 0]

\* del d[u]
DictDel(d, u) == [v \in DOMAIN d \ {u} |-> d[v]]

\* d[u] = x
DictSet(d, u, x) == [v \in DOMAIN d \cup {u} |-> IF v = u THEN x ELSE d[v]]

\* d.get(u, [])
DictGet(d, u) == IF u \in DOMAIN d THEN d[u] ELSE <<>>

\* time.time(): a reading no earlier than the previous one, or, when the
\* system clock may be set back, any tick
Readings(t) ==
    IF clock_mode = "monotone"
    THEN {x \in Times : t <= x /\ x <= t + MaxStep}
    ELSE Times

\* max(0.0, x)
Max0(x) == IF x > 0 THEN x ELSE 0

\* number of entries of the sequence s that lie in the interval (lo, hi]
CountIn(s, lo, hi) == Cardinality({i \in 1 .. Len(s) : lo < s[i] /\ s[i] <= hi})

\* ---- SlidingWindowRateLimiter ------------------------------------------------
\* variant of the loop that keeps a timestamp exactly window_size old
RECURSIVE PopExpired_Strict(_, _)
PopExpired_Strict(q, current_time) ==
    IF q # <<>> /\ Head(q) < current_time - window_size
    THEN PopExpired_Strict(Tail(q), current_time)
    ELSE q

\* variant of the loop that is an if: at most one popleft per call
PopExpired_Once(q, current_time) ==
    IF q # <<>> /\ Head(q) <= current_time - window_size
    THEN Tail(q)
    ELSE q

\* the while loop of _cleanup_window: popleft while the head has expired
RECURSIVE PopExpired(_, _)
PopExpired(q, current_time) ==
    IF q # <<>> /\ Head(q) <= current_time - window_size
    THEN PopExpired(Tail(q), current_time)
    ELSE q

\* variant of _cleanup_window that drops the whole dict once a deque empties
cleanup_window_Clear(um, user_id, current_time) ==
    IF user_id \in DOMAIN um
    THEN LET q == PopExpired(um[user_id], current_time)
         IN  IF q = <<>> THEN EmptyDict ELSE DictSet(um, user_id, q)
    ELSE um

\* variant of _cleanup_window without the del of an emptied deque
cleanup_window_NoDel(um, user_id, current_time) ==
    IF user_id \in DOMAIN um
    THEN DictSet(um, user_id, PopExpired(um[user_id], current_time))
    ELSE um

\* _cleanup_window(user_id, current_time), as the dict it leaves
cleanup_window(um, user_id, current_time) ==
    IF user_id \in DOMAIN um
    THEN LET q == PopExpired(um[user_id], current_time)
         IN  IF q = <<>> THEN DictDel(um, user_id) ELSE DictSet(um, user_id, q)
    ELSE um

\* variant of the length test that admits one request too many
SwCanSend_OffByOne(um, user_id, current_time) ==
    Len(DictGet(cleanup_window(um, user_id, current_time), user_id)) <= max_requests

\* the value can_send_message returns when its clock reading is current_time
SwCanSend(um, user_id, current_time) ==
    Len(DictGet(cleanup_window(um, user_id, current_time), user_id)) < max_requests

\* variant of the wait computed from the newest stored timestamp ([-1])
SwWait_Newest(um, user_id, t) ==
    IF user_id \notin DOMAIN um \/ um[user_id] = <<>>
    THEN 0
    ELSE Max0(window_size - (t - um[user_id][Len(um[user_id])]))

\* variant of the wait without the clamp at zero
SwWait_NoClamp(um, user_id, t) ==
    IF user_id \notin DOMAIN um \/ um[user_id] = <<>>
    THEN 0
    ELSE window_size - (t - um[user_id][1])

\* the value time_until_next_allowed returns when its clock reading is t
SwWait(um, user_id, t) ==
    IF user_id \notin DOMAIN um \/ um[user_id] = <<>>
    THEN 0
    ELSE Max0(window_size - (t - um[user_id][1]))

\* variant of the append that puts the new timestamp at the front (appendleft)
SwAppend_Front(um, user_id, t) ==
    LET um1 == IF user_id \notin DOMAIN um THEN DictSet(um, user_id, <<>>) ELSE um
    IN  DictSet(um1, user_id, <<t>> \o um1[user_id])

\* the body of record_message after an admitted check: create the deque, append
SwAppend(um, user_id, t) ==
    LET um1 == IF user_id \notin DOMAIN um THEN DictSet(um, user_id, <<>>) ELSE um
    IN  DictSet(um1, user_id, Append(um1[user_id], t))

Sw_can_send_message(u) ==
    /\ kind = "sliding"
    /\ \E t \in Readings(now) :
          /\ now' = t
          /\ user_messages' = cleanup_window(user_messages, u, t)
          /\ lastOp' = [op |-> "can_send_message", user |-> u, at |-> t,
                        ret |-> SwCanSend(user_messages, u, t)]
    /\ UNCHANGED <<config, user_last_message, hist, th>>

\* variant of record_message that stores the timestamp whatever the decision
Sw_record_message_StoreAlways(u) ==
    /\ kind = "sliding"
    /\ \E t1 \in Readings(now) :
          IF SwCanSend(user_messages, u, t1)
          THEN \E t2 \in Readings(t1) :
                  /\ Len(hist[u]) < MaxHist
                  /\ now' = t2
                  /\ user_messages' =
                        SwAppend(cleanup_window(user_messages, u, t1), u, t2)
                  /\ hist' = [hist EXCEPT ![u] = Append(@, t2)]
                  /\ lastOp' = [op |-> "record_message", user |-> u, at |-> t1,
                                ret |-> TRUE]
          ELSE /\ now' = t1
               /\ user_messages' =
                     SwAppend(cleanup_window(user_messages, u, t1), u, t1)
               /\ hist' = hist
               /\ lastOp' = [op |-> "record_message", user |-> u, at |-> t1,
                             ret |-> FALSE]
    /\ UNCHANGED <<config, user_last_message, th>>

Sw_record_message(u) ==
    /\ kind = "sliding"
    /\ \E t1 \in Readings(now) :
          IF SwCanSend(user_messages, u, t1)
          THEN \E t2 \in Readings(t1) :
                  /\ Len(hist[u]) < MaxHist
                  /\ now' = t2
                  /\ user_messages' =
                        SwAppend(cleanup_window(user_messages, u, t1), u, t2)
                  /\ hist' = [hist EXCEPT ![u] = Append(@, t2)]
                  /\ lastOp' = [op |-> "record_message", user |-> u, at |-> t1,
                                ret |-> TRUE]
          ELSE /\ now' = t1
               /\ user_messages' = cleanup_window(user_messages, u, t1)
               /\ hist' = hist
               /\ lastOp' = [op |-> "record_message", user |-> u, at |-> t1,
                             ret |-> FALSE]
    /\ UNCHANGED <<config, user_last_message, th>>

\* variant of time_until_next_allowed that runs _cleanup_window first
Sw_time_until_next_allowed_Purging(u) ==
    /\ kind = "sliding"
    /\ \E t \in Readings(now) :
          /\ now' = t
          /\ user_messages' = cleanup_window(user_messages, u, t)
          /\ lastOp' = [op |-> "time_until_next_allowed", user |-> u, at |-> t,
                        ret |-> SwWait(user_messages', u, t)]
    /\ UNCHANGED <<config, user_last_message, hist, th>>

Sw_time_until_next_allowed(u) ==
    /\ kind = "sliding"
    /\ IF u \notin DOMAIN user_messages \/ user_messages[u] = <<>>
       THEN /\ now' = now
            /\ lastOp' = [op |-> "time_until_next_allowed", user |-> u,
                          at |-> now, ret |-> 0]
       ELSE \E t \in Readings(now) :
               /\ now' = t
               /\ lastOp' = [op |-> "time_until_next_allowed", user |-> u,
                             at |-> t, ret |-> SwWait(user_messages, u, t)]
    /\ UNCHANGED <<config, user_messages, user_last_message, hist, th>>

\* ---- ThrottlingRateLimiter ---------------------------------------------------
\* variant of the interval test with a strict comparison
ThCanSend_Strict(ulm, user_id, current_time) ==
    \/ user_id \notin DOMAIN ulm
    \/ (current_time - ulm[user_id]) > min_interval

\* the value can_send_message returns when its clock reading is current_time
ThCanSend(ulm, user_id, current_time) ==
    \/ user_id \notin DOMAIN ulm
    \/ (current_time - ulm[user_id]) >= min_interval

\* variant of the wait without the clamp at zero
ThWait_NoClamp(ulm, user_id, t) ==
    IF user_id \notin DOMAIN ulm
    THEN 0
    ELSE min_interval - (t - ulm[user_id])

\* the value time_until_next_allowed returns when its clock reading is t
ThWait(ulm, user_id, t) ==
    IF user_id \notin DOMAIN ulm
    THEN 0
    ELSE Max0(min_interval - (t - ulm[user_id]))

Th_can_send_message(u) ==
    /\ kind = "throttling"
    /\ \E t \in Readings(now) :
          /\ now' = t
          /\ lastOp' = [op |-> "can_send_message", user |-> u, at |-> t,
                        ret |-> ThCanSend(user_last_message, u, t)]
    /\ UNCHANGED <<config, user_messages, user_last_message, hist, th>>

\* variant of record_message that stores the timestamp whatever the decision
Th_record_message_StoreAlways(u) ==
    /\ kind = "throttling"
    /\ \E t1 \in Readings(now) :
          IF ThCanSend(user_last_message, u, t1)
          THEN \E t2 \in Readings(t1) :
                  /\ Len(hist[u]) < MaxHist
                  /\ now' = t2
                  /\ user_last_message' = DictSet(user_last_message, u, t2)
                  /\ hist' = [hist EXCEPT ![u] = Append(@, t2)]
                  /\ lastOp' = [op |-> "record_message", user |-> u, at |-> t1,
                                ret |-> TRUE]
          ELSE /\ now' = t1
               /\ user_last_message' = DictSet(user_last_message, u, t1)
               /\ hist' = hist
               /\ lastOp' = [op |-> "record_message", user |-> u, at |-> t1,
                             ret |-> FALSE]
    /\ UNCHANGED <<config, user_messages, th>>

Th_record_message(u) ==
    /\ kind = "throttling"
    /\ \E t1 \in Readings(now) :
          IF ThCanSend(user_last_message, u, t1)
          THEN \E t2 \in Readings(t1) :
                  /\ Len(hist[u]) < MaxHist
                  /\ now' = t2
                  /\ user_last_message' = DictSet(user_last_message, u, t2)
                  /\ hist' = [hist EXCEPT ![u] = Append(@, t2)]
                  /\ lastOp' = [op |-> "record_message", user |-> u, at |-> t1,
                                ret |-> TRUE]
          ELSE /\ now' = t1
               /\ user_last_message' = user_last_message
               /\ hist' = hist
               /\ lastOp' = [op |-> "record_message", user |-> u, at |-> t1,
                             ret |-> FALSE]
    /\ UNCHANGED <<config, user_messages, th>>

Th_time_until_next_allowed(u) ==
    /\ kind = "throttling"
    /\ IF u \notin DOMAIN user_last_message
       THEN /\ now' = now
            /\ lastOp' = [op |-> "time_until_next_allowed", user |-> u,
                          at |-> now, ret |-> 0]
       ELSE \E t \in Readings(now) :
               /\ now' = t
               /\ lastOp' = [op |-> "time_until_next_allowed", user |-> u,
                             at |-> t, ret |-> ThWait(user_last_message, u, t)]
    /\ UNCHANGED <<config, user_messages, user_last_message, hist, th>>

\* ---- concurrent record_message calls ------------------------------------------
\* Two threads share the limiter object; the code takes no lock, so a thread
\* switch can fall between any two of the steps below.
IdleThread == [pc |-> "idle", user |-> NoUser, ct |-> 0, t0 |-> 0,
               ovl |-> FALSE, free |-> 0, ret |-> "none"]

\* admissions still open to user u at time t, from the stored state
FreeSlots(u, t) ==
    IF kind = "sliding"
    THEN max_requests - CountIn(DictGet(user_messages, u), t - window_size, t)
    ELSE IF ThCanSend(user_last_message, u, t) THEN 1 ELSE 0

Running(i) == th[i].pc \notin {"idle", "done"}

\* a thread enters record_message(u)
Call(i, u) ==
    /\ th[i].pc = "idle"
    /\ th' = [th EXCEPT ![i] = [pc |-> "read", user |-> u, ct |-> 0, t0 |-> now,
                                ovl |-> \E j \in Threads \ {i} : Running(j),
                                free |-> FreeSlots(u, now),
                                ret |-> "none"]]
    /\ UNCHANGED <<config, user_messages, user_last_message, now, hist, lastOp>>

\* can_send_message: current_time = time.time()
ReadClock(i) ==
    /\ th[i].pc = "read"
    /\ \E t \in Readings(now) :
          /\ now' = t
          /\ th' = [th EXCEPT ![i].ct = t,
                              ![i].pc = IF kind = "sliding" THEN "cleanup" ELSE "check"]
    /\ UNCHANGED <<config, user_messages, user_last_message, hist, lastOp>>

\* SlidingWindowRateLimiter.can_send_message: self._cleanup_window(...)
SwCleanupStep(i) ==
    /\ th[i].pc = "cleanup"
    /\ user_messages' = cleanup_window(user_messages, th[i].user, th[i].ct)
    /\ th' = [th EXCEPT ![i].pc = "check"]
    /\ UNCHANGED <<config, user_last_message, now, hist, lastOp>>

\* SlidingWindowRateLimiter: the length test and the if of record_message
SwCheckStep(i) ==
    /\ kind = "sliding"
    /\ th[i].pc = "check"
    /\ th' = IF Len(DictGet(user_messages, th[i].user)) < max_requests
             THEN [th EXCEPT ![i].pc = "create"]
             ELSE [th EXCEPT ![i].pc = "done", ![i].ret = "False"]
    /\ UNCHANGED <<config, user_messages, user_last_message, now, hist, lastOp>>

\* SlidingWindowRateLimiter.record_message: create the deque when the key is absent
SwCreateStep(i) ==
    /\ th[i].pc = "create"
    /\ user_messages' = IF th[i].user \notin DOMAIN user_messages
                        THEN DictSet(user_messages, th[i].user, <<>>)
                        ELSE user_messages
    /\ th' = [th EXCEPT ![i].pc = "append"]
    /\ UNCHANGED <<config, user_last_message, now, hist, lastOp>>

\* SlidingWindowRateLimiter.record_message: self.user_messages[user_id].append(time.time())
SwAppendStep(i) ==
    /\ th[i].pc = "append"
    /\ IF th[i].user \in DOMAIN user_messages
       THEN \E t \in Readings(now) :
               /\ now' = t
               /\ user_messages' = DictSet(user_messages, th[i].user,
                                           Append(user_messages[th[i].user], t))
               /\ hist' = [hist EXCEPT ![th[i].user] = Append(@, t)]
               /\ th' = [th EXCEPT ![i].pc = "done", ![i].ret = "True"]
       ELSE /\ th' = [th EXCEPT ![i].pc = "done", ![i].ret = "KeyError"]
            /\ UNCHANGED <<user_messages, now, hist>>
    /\ UNCHANGED <<config, user_last_message, lastOp>>

\* ThrottlingRateLimiter: the test of can_send_message and the if of record_message
ThCheckStep(i) ==
    /\ kind = "throttling"
    /\ th[i].pc = "check"
    /\ th' = IF ThCanSend(user_last_message, th[i].user, th[i].ct)
             THEN [th EXCEPT ![i].pc = "write"]
             ELSE [th EXCEPT ![i].pc = "done", ![i].ret = "False"]
    /\ UNCHANGED <<config, user_messages, user_last_message, now, hist, lastOp>>

\* ThrottlingRateLimiter.record_message: self.user_last_message[user_id] = time.time()
ThWriteStep(i) ==
    /\ th[i].pc = "write"
    /\ \E t \in Readings(now) :
          /\ now' = t
          /\ user_last_message' = DictSet(user_last_message, th[i].user, t)
          /\ hist' = [hist EXCEPT ![th[i].user] = Append(@, t)]
          /\ th' = [th EXCEPT ![i].pc = "done", ![i].ret = "True"]
    /\ UNCHANGED <<config, user_messages, lastOp>>

\* ---- construction ------------------------------------------------------------
\* SlidingWindowRateLimiter.__init__(window_size, max_requests)
SwInit(w, n) ==
    /\ kind = "sliding"
    /\ window_size = w
    /\ max_requests = n
    /\ user_messages = EmptyDict
    /\ min_interval = 0
    /\ user_last_message = EmptyDict

\* ThrottlingRateLimiter.__init__(min_interval)
ThInit(m) ==
    /\ kind = "throttling"
    /\ min_interval = m
    /\ user_last_message = EmptyDict
    /\ window_size = 0
    /\ max_requests = 0
    /\ user_messages = EmptyDict

InitLimiter ==
    /\ \/ \E w \in WindowSizes, n \in RequestLimits : SwInit(w, n)
       \/ \E m \in MinIntervals : ThInit(m)
    /\ now = 0
    /\ hist = [u \in Users |-> <<>>]
    /\ lastOp = [op |-> "init", user |-> NoUser, at |-> 0, ret |-> FALSE]
    /\ th = [i \in Threads |-> IdleThread]

Init == InitLimiter /\ clock_mode = "monotone"

\* the same object under a system clock that can be set back
InitAnyClock == InitLimiter /\ clock_mode = "any"

Next ==
    \/ \E u \in Users : Sw_can_send_message(u)
    \/ \E u \in Users : Sw_record_message(u)
    \/ \E u \in Users : Sw_time_until_next_allowed(u)
    \/ \E u \in Users : Th_can_send_message(u)
    \/ \E u \in Users : Th_record_message(u)
    \/ \E u \in Users : Th_time_until_next_allowed(u)

Spec == Init /\ [][Next]_vars

NextConc ==
    \/ \E i \in Threads, u \in Users : Call(i, u)
    \/ \E i \in Threads : ReadClock(i)
    \/ \E i \in Threads : SwCleanupStep(i)
    \/ \E i \in Threads : SwCheckStep(i)
    \/ \E i \in Threads : SwCreateStep(i)
    \/ \E i \in Threads : SwAppendStep(i)
    \/ \E i \in Threads : ThCheckStep(i)
    \/ \E i \in Threads : ThWriteStep(i)

SpecConc == Init /\ [][NextConc]_vars

\* the sliding-window limiter alone and the calls of one identity, under a
\* clock that keeps advancing
InitSw == Init /\ kind = "sliding"

NextSw ==
    \/ \E u \in ClockUsers : Sw_can_send_message(u)
    \/ \E u \in ClockUsers : Sw_record_message(u)
    \/ \E u \in ClockUsers : Sw_time_until_next_allowed(u)

ClockAdvance == NextSw /\ now' > now

SpecReclaim == InitSw /\ [][NextSw]_vars /\ WF_vars(ClockAdvance)

\* the calls of one identity, which are the ones its waits depend on
NextAnyClock ==
    \/ \E u \in ClockUsers : Sw_can_send_message(u)
    \/ \E u \in ClockUsers : Sw_record_message(u)
    \/ \E u \in ClockUsers : Sw_time_until_next_allowed(u)
    \/ \E u \in ClockUsers : Th_can_send_message(u)
    \/ \E u \in ClockUsers : Th_record_message(u)
    \/ \E u \in ClockUsers : Th_time_until_next_allowed(u)

SpecAnyClock == InitAnyClock /\ [][NextAnyClock]_vars

\* ---- properties --------------------------------------------------------------
Last(s) == s[Len(s)]

Sliding == kind = "sliding"
Throttling == kind = "throttling"

\* the configuration the interface section calls valid
ValidConfig ==
    /\ Sliding => (max_requests >= 1 /\ window_size >= 0)
    /\ Throttling => min_interval >= 0

\* the step just taken was the call op for user u
Did(op, u) == lastOp'.op = op /\ lastOp'.user = u

\* C1: in the sliding-window limiter, for every identity and every time t, at
\* most max_requests accepted record_message calls have their stored timestamp
\* in (t - window_size, t], also when the clock advances between the admission
\* check and the reading that is appended.
C1_WindowLimit ==
    Sliding =>
        \A u \in Users, t \in Times :
            CountIn(hist[u], t - window_size, t) <= max_requests

\* a window that is full, filled by a record whose appended reading is later
\* than the reading of its admission check
C1_Witness ==
    /\ Sliding /\ max_requests = 2 /\ window_size > 0
    /\ lastOp.op = "record_message" /\ lastOp.ret = TRUE /\ now > lastOp.at
    /\ CountIn(hist[lastOp.user], now - window_size, now) = max_requests

\* C2: two concurrent record_message calls for one identity, started while
\* one slot remains, do not both return True, and the identity's limit is not
\* exceeded.
C2_RecordAtomic ==
    /\ Sliding =>
          \A u \in Users, t \in Times :
              CountIn(hist[u], t - window_size, t) <= max_requests
    /\ Throttling =>
          \A u \in Users : \A k \in 1 .. Len(hist[u]) - 1 :
              hist[u][k + 1] - hist[u][k] >= min_interval
    /\ \A i, j \in Threads :
          ( /\ i # j
            /\ th[i].pc = "done" /\ th[j].pc = "done"
            /\ th[i].user = th[j].user
            /\ th[i].ovl \/ th[j].ovl
            /\ th[i].free = 1 /\ th[j].free = 1
            /\ th[i].t0 = now /\ th[j].t0 = now
            /\ (Sliding => window_size > 0)
            /\ (Throttling => min_interval > 0) )
          => ~(th[i].ret = "True" /\ th[j].ret = "True")

\* C3: in the throttling limiter a record_message for a known identity is
\* accepted exactly when its clock reading is at least min_interval after the
\* stored timestamp, and consecutive accepted timestamps are at least
\* min_interval apart.
C3_ThrottleSpacing ==
    [][\A u \in Users :
          (Throttling /\ Did("record_message", u)
             /\ u \in DOMAIN user_last_message)
          => /\ lastOp'.ret = (lastOp'.at - user_last_message[u] >= min_interval)
             /\ lastOp'.ret =>
                   user_last_message'[u] - user_last_message[u] >= min_interval
             /\ \A k \in 1 .. Len(hist'[u]) - 1 :
                   hist'[u][k + 1] - hist'[u][k] >= min_interval]_vars

\* a second record accepted exactly min_interval after the first
C3_Witness ==
    /\ Throttling /\ min_interval >= 2
    /\ lastOp.op = "record_message" /\ lastOp.ret = TRUE
    /\ Len(hist[lastOp.user]) >= 2
    /\ lastOp.at = hist[lastOp.user][1] + min_interval

\* C4: the sliding-window limiter's can_send_message, and record_message's
\* decision, at clock reading t is true exactly when fewer than max_requests
\* of all the identity's accepted timestamps lie in (t - window_size, t].
C4_AdmissionExact ==
    [][\A u \in Users :
          (Sliding /\ (Did("can_send_message", u) \/ Did("record_message", u)))
          => lastOp'.ret =
                (CountIn(hist[u], lastOp'.at - window_size, lastOp'.at)
                    < max_requests)]_vars

\* after max_requests accepted events, a record accepted at the moment the
\* oldest one is exactly window_size old
C4_Witness ==
    /\ Sliding /\ max_requests = 2 /\ window_size > 0
    /\ lastOp.op = "record_message" /\ lastOp.ret = TRUE
    /\ Len(hist[lastOp.user]) = 3
    /\ hist[lastOp.user][2] > hist[lastOp.user][1]
    /\ lastOp.at = hist[lastOp.user][1] + window_size

\* C5: a call for identity a leaves every other identity's stored state, and
\* so the results of its can_send_message and time_until_next_allowed,
\* unchanged.
C5_Independence ==
    [][\A a \in Users : lastOp'.user = a =>
          \A b \in Users \ {a} :
             /\ (b \in DOMAIN user_messages') = (b \in DOMAIN user_messages)
             /\ b \in DOMAIN user_messages => user_messages'[b] = user_messages[b]
             /\ (b \in DOMAIN user_last_message') = (b \in DOMAIN user_last_message)
             /\ b \in DOMAIN user_last_message =>
                   user_last_message'[b] = user_last_message[b]
             /\ Sliding => \A t \in Times : t >= now' =>
                   /\ SwCanSend(user_messages', b, t) = SwCanSend(user_messages, b, t)
                   /\ SwWait(user_messages', b, t) = SwWait(user_messages, b, t)
             /\ Throttling => \A t \in Times : t >= now' =>
                   /\ ThCanSend(user_last_message', b, t)
                         = ThCanSend(user_last_message, b, t)
                   /\ ThWait(user_last_message', b, t)
                         = ThWait(user_last_message, b, t)]_vars

\* a call for one identity has emptied and deleted its own entry while another
\* identity has a stored entry
C5_Witness ==
    /\ Sliding /\ max_requests >= 1 /\ window_size > 0
    /\ lastOp.op = "can_send_message"
    /\ Len(hist[lastOp.user]) > 0
    /\ lastOp.user \notin DOMAIN user_messages
    /\ \E b \in Users \ {lastOp.user} : b \in DOMAIN user_messages

\* C6: a limiter object exists only for a valid configuration: max_requests
\* >= 1, window_size >= 0, min_interval >= 0.
C6_InvalidConfigRejected == ValidConfig

\* C7: under a valid configuration, whenever time_until_next_allowed would
\* return 0 at a time t, can_send_message at the same t returns true.
C7_ZeroWaitMeansAllowed ==
    ValidConfig =>
        \A u \in Users, t \in Times :
            t >= now =>
               /\ Sliding =>
                     (SwWait(user_messages, u, t) = 0 => SwCanSend(user_messages, u, t))
               /\ Throttling =>
                     (ThWait(user_last_message, u, t) = 0
                         => ThCanSend(user_last_message, u, t))

\* time_until_next_allowed returned 0 for an identity whose deque holds
\* max_requests timestamps, the oldest of them exactly window_size old
C7_Witness ==
    /\ Sliding /\ max_requests = 2 /\ window_size > 0
    /\ lastOp.op = "time_until_next_allowed" /\ lastOp.ret = 0
    /\ lastOp.user \in DOMAIN user_messages
    /\ Len(user_messages[lastOp.user]) = max_requests
    /\ user_messages[lastOp.user][1] = now - window_size

\* C8: the throttling limiter's wait is 0 for an identity never recorded and
\* otherwise max(0, min_interval - (t - last accepted timestamp)); it is
\* positive exactly when can_send_message is false; and a record_message is
\* accepted exactly when its clock reading is at least the wait past the time
\* the wait was computed for.
C8_ThrottleWaitExact ==
    [][Throttling =>
          \A u \in Users :
             /\ Did("time_until_next_allowed", u) =>
                   lastOp'.ret = IF hist[u] = <<>>
                                 THEN 0
                                 ELSE Max0(min_interval - (lastOp'.at - Last(hist[u])))
             /\ \A t \in Times :
                   t >= now' =>
                      ((ThWait(user_last_message', u, t) > 0)
                          <=> ~ThCanSend(user_last_message', u, t))
             /\ Did("record_message", u) =>
                   (lastOp'.ret <=>
                       lastOp'.at >= now + ThWait(user_last_message, u, now))]_vars

\* a wait strictly between 0 and min_interval was returned
C8_Witness ==
    /\ Throttling /\ min_interval >= 2
    /\ lastOp.op = "time_until_next_allowed"
    /\ lastOp.ret > 0 /\ lastOp.ret < min_interval

\* the wait time_until_next_allowed would return for u at time t
WaitOf(um, ulm, u, t) == IF Sliding THEN SwWait(um, u, t) ELSE ThWait(ulm, u, t)

\* C9: for an identity with no record_message call in between, the wait at a
\* later time is never larger than the wait at an earlier time (and so stays 0
\* once it has reached 0).
C9_MonotoneRecovery ==
    [][ValidConfig =>
          \A u \in Users :
             ~Did("record_message", u) =>
                WaitOf(user_messages', user_last_message', u, now')
                   <= WaitOf(user_messages, user_last_message, u, now)]_vars

\* C10: with max_requests = 1 and the last accepted record stored at time t,
\* can_send_message at t' with t < t' < t + window_size is false,
\* time_until_next_allowed at t' is t + window_size - t', record_message at
\* exactly t + window_size is accepted, and a cleanup at t' leaves no stored
\* timestamp that is t' - window_size or older.
C10_HalfOpenBoundary ==
    [][\A u \in Users :
          (Sliding /\ max_requests = 1 /\ hist[u] # <<>> /\ lastOp'.user = u)
          => LET t  == Last(hist[u])
                 t1 == lastOp'.at
                 inside == t < t1 /\ t1 < t + window_size
             IN  /\ (lastOp'.op = "can_send_message" /\ inside)
                       => lastOp'.ret = FALSE
                 /\ (lastOp'.op = "time_until_next_allowed" /\ inside)
                       => lastOp'.ret = t + window_size - t1
                 /\ (lastOp'.op = "record_message" /\ t1 = t + window_size)
                       => lastOp'.ret = TRUE
                 /\ (\/ lastOp'.op = "can_send_message"
                     \/ lastOp'.op = "record_message" /\ lastOp'.ret = FALSE)
                       => \A k \in 1 .. Len(DictGet(user_messages', u)) :
                             user_messages'[u][k] > t1 - window_size]_vars

\* a record accepted at the moment the previous one is exactly window_size old
C10_Witness ==
    /\ Sliding /\ max_requests = 1 /\ window_size > 0
    /\ lastOp.op = "record_message" /\ lastOp.ret = TRUE
    /\ Len(hist[lastOp.user]) = 2
    /\ lastOp.at = hist[lastOp.user][1] + window_size

\* C11: under clock readings in any order, time_until_next_allowed of both
\* limiters returns a value >= 0, for the call just made and for any reading
\* it could be given in the state reached.
C11_WaitNonNegative ==
    /\ lastOp.op = "time_until_next_allowed" => lastOp.ret >= 0
    /\ \A u \in Users, t \in Times :
          /\ SwWait(user_messages, u, t) >= 0
          /\ ThWait(user_last_message, u, t) >= 0

\* a wait was computed from a reading earlier than the stored timestamp
C11_Witness ==
    /\ clock_mode = "any"
    /\ lastOp.op = "time_until_next_allowed"
    /\ \/ /\ Sliding /\ window_size > 0
          /\ lastOp.user \in DOMAIN user_messages
          /\ lastOp.at < user_messages[lastOp.user][1]
          /\ lastOp.ret > window_size
       \/ /\ Throttling /\ min_interval > 0
          /\ lastOp.user \in DOMAIN user_last_message
          /\ lastOp.at < user_last_message[lastOp.user]
          /\ lastOp.ret > min_interval

\* C12: a can_send_message call repeated at the same clock reading, with no
\* record_message in between, returns what the first call returned and
\* leaves the stored state as the first call left it, in both limiters.
C12_CanSendIdempotent ==
    [][\A u \in Users : Did("can_send_message", u) =>
          /\ Sliding =>
                /\ SwCanSend(user_messages', u, lastOp'.at) = lastOp'.ret
                /\ cleanup_window(user_messages', u, lastOp'.at) = user_messages'
          /\ Throttling =>
                /\ ThCanSend(user_last_message', u, lastOp'.at) = lastOp'.ret
                /\ user_last_message' = user_last_message]_vars

\* can_send_message has purged part of a deque and answered false
C12_Witness ==
    /\ Sliding /\ max_requests = 2 /\ window_size > 0
    /\ lastOp.op = "can_send_message" /\ lastOp.ret = FALSE
    /\ Len(hist[lastOp.user]) = 3
    /\ Len(user_messages[lastOp.user]) = 2

\* u has an entry and every timestamp in it has expired at the current time
Expired(u) ==
    /\ window_size > 0
    /\ u \in DOMAIN user_messages
    /\ \A k \in 1 .. Len(user_messages[u]) :
          user_messages[u][k] <= now - window_size

\* C13: as time advances, an entry whose timestamps have all expired is
\* eventually removed (or replaced by a new record), with no assumption that
\* can_send_message is ever called again for that identity.
C13_EventualReclaim ==
    \A u \in ClockUsers : Expired(u) ~> ~Expired(u)

\* C13 as amended: the same, for an identity for which can_send_message keeps
\* being called.
C13_ReclaimOnRead ==
    \A u \in ClockUsers :
        ([]<><<Sw_can_send_message(u)>>_vars) => (Expired(u) ~> ~Expired(u))

\* can_send_message has removed the entry of an identity whose last accepted
\* timestamp had expired
C13_Witness ==
    /\ Sliding /\ max_requests >= 1 /\ window_size > 0
    /\ lastOp.op = "can_send_message" /\ lastOp.ret = TRUE
    /\ hist[lastOp.user] # <<>>
    /\ Last(hist[lastOp.user]) <= lastOp.at - window_size
    /\ lastOp.user \notin DOMAIN user_messages

\* C14: between completed operations no key of user_messages maps to an empty
\* sequence: a purge that empties a deque deletes the key, and record_message
\* leaves no empty deque behind.
C14_NoEmptyDeque ==
    \A u \in DOMAIN user_messages : user_messages[u] # <<>>

\* record_message found only expired timestamps: its cleanup emptied the deque
\* and deleted the key, and the call created the deque again
C14_Witness ==
    /\ Sliding /\ max_requests = 2 /\ window_size > 0
    /\ lastOp.op = "record_message" /\ lastOp.ret = TRUE
    /\ Len(hist[lastOp.user]) = 3
    /\ Len(user_messages[lastOp.user]) = 1

\* s is non-decreasing from front to back
Sorted(s) == \A k \in 1 .. Len(s) - 1 : s[k] <= s[k + 1]

\* the entries of s later than the time lo
Later(s, lo) == SelectSeq(s, LAMBDA x : x > lo)

\* C15: every stored sequence is non-decreasing from front to back, and a
\* cleanup at reading t (can_send_message, or the check of record_message)
\* removes exactly the timestamps <= t - window_size of that identity.
C15_SortedAndExactPurge ==
    [][/\ \A u \in DOMAIN user_messages' : Sorted(user_messages'[u])
       /\ \A u \in Users :
             (Sliding /\ (Did("can_send_message", u)
                          \/ (Did("record_message", u) /\ lastOp'.ret = FALSE)))
             => DictGet(user_messages', u)
                   = Later(DictGet(user_messages, u), lastOp'.at - window_size)
       /\ \A u \in Users :
             (Sliding /\ Did("record_message", u) /\ lastOp'.ret = TRUE)
             => user_messages'[u]
                   = Append(Later(DictGet(user_messages, u),
                                  lastOp'.at - window_size), now')]_vars

\* a cleanup removed the older of two different timestamps and kept the newer
C15_Witness ==
    /\ Sliding /\ max_requests = 2 /\ window_size > 0
    /\ lastOp.op = "can_send_message"
    /\ Len(hist[lastOp.user]) = 2
    /\ hist[lastOp.user][1] < hist[lastOp.user][2]
    /\ lastOp.user \in DOMAIN user_messages
    /\ user_messages[lastOp.user] = <<hist[lastOp.user][2]>>

\* C16: a rejected record_message of the sliding-window limiter leaves the
\* state a can_send_message at the same reading would leave (expired
\* timestamps purged, nothing appended, no key created); a rejected
\* record_message of the throttling limiter leaves user_last_message unchanged.
C16_RejectedRecordFrame ==
    [][\A u \in Users :
          (Did("record_message", u) /\ lastOp'.ret = FALSE)
          => /\ hist' = hist
             /\ Sliding =>
                   /\ user_messages' = cleanup_window(user_messages, u, lastOp'.at)
                   /\ DOMAIN user_messages' \subseteq DOMAIN user_messages
                   /\ Len(DictGet(user_messages', u))
                         <= Len(DictGet(user_messages, u))
                   /\ user_last_message' = user_last_message
             /\ Throttling =>
                   /\ user_last_message' = user_last_message
                   /\ user_messages' = user_messages]_vars

\* a record_message was rejected in a call that advanced the clock
C16_Witness ==
    /\ lastOp.op = "record_message" /\ lastOp.ret = FALSE
    /\ lastOp.at = now /\ now > 0
    /\ \/ Sliding /\ max_requests = 2 /\ Len(user_messages[lastOp.user]) = 2
       \/ Throttling /\ now < user_last_message[lastOp.user] + min_interval

\* C17: in the throttling limiter an identity enters user_last_message only
\* through an accepted record_message, is never removed, and its stored
\* timestamp changes only on an accepted record_message, to the reading that
\* call stores, which is never smaller than the previous value.
C17_ThrottleStateMachine ==
    [][Throttling =>
          \A u \in Users :
             /\ u \in DOMAIN user_last_message => u \in DOMAIN user_last_message'
             /\ (u \notin DOMAIN user_last_message /\ u \in DOMAIN user_last_message')
                   => (Did("record_message", u) /\ lastOp'.ret = TRUE)
             /\ (u \in DOMAIN user_last_message
                    /\ user_last_message'[u] # user_last_message[u])
                   => /\ Did("record_message", u) /\ lastOp'.ret = TRUE
                      /\ user_last_message'[u] >= user_last_message[u]
             /\ (Did("record_message", u) /\ lastOp'.ret = TRUE)
                   => user_last_message'[u] = now']_vars

\* an accepted record_message moved a known identity's timestamp forward
C17_Witness ==
    /\ Throttling /\ min_interval >= 2
    /\ lastOp.op = "record_message" /\ lastOp.ret = TRUE
    /\ Len(hist[lastOp.user]) = 2
    /\ user_last_message[lastOp.user] > hist[lastOp.user][1] + min_interval

\* C18: in the sliding-window limiter, if can_send_message is false at a time
\* t0 and w is the wait at t0, then with no record_message for the identity in
\* between can_send_message is false at every t with t0 <= t < t0 + w, and a
\* cleanup at t0 + w purges the oldest stored timestamp.
C18_WaitLowerBound ==
    Sliding =>
        \A u \in Users, t0 \in Times :
            (t0 >= now /\ ~SwCanSend(user_messages, u, t0)) =>
                LET w == SwWait(user_messages, u, t0)
                IN  /\ \A t \in Times :
                          (t0 <= t /\ t < t0 + w)
                             => ~SwCanSend(cleanup_window(user_messages, u, t0), u, t)
                    /\ u \in DOMAIN user_messages =>
                          /\ w > 0
                          /\ Len(PopExpired(user_messages[u], t0 + w))
                                < Len(user_messages[u])
                          /\ \A t \in Times :
                                (t0 <= t /\ t < t0 + w) =>
                                   PopExpired(user_messages[u], t) = user_messages[u]

\* a positive wait was returned to an identity that is denied and whose deque
\* holds two different timestamps
C18_Witness ==
    /\ Sliding /\ max_requests = 2 /\ window_size > 0
    /\ lastOp.op = "time_until_next_allowed" /\ lastOp.ret > 0
    /\ lastOp.at = now
    /\ ~SwCanSend(user_messages, lastOp.user, now)
    /\ user_messages[lastOp.user][1] < user_messages[lastOp.user][2]

\* C19: with max_requests >= 1, the number of timestamps stored for an
\* identity, expired ones not yet purged included, is at most max_requests.
C19_Occupancy ==
    (Sliding /\ max_requests >= 1) =>
        \A u \in DOMAIN user_messages : Len(user_messages[u]) <= max_requests

\* a deque holds max_requests timestamps, the oldest expired and not yet purged
C19_Witness ==
    /\ Sliding /\ max_requests = 2 /\ window_size > 0
    /\ \E u \in DOMAIN user_messages :
          /\ Len(user_messages[u]) = max_requests
          /\ user_messages[u][1] < now - window_size

\* C20: time_until_next_allowed is a pure read in both limiters: it purges
\* nothing, creates and deletes no key and changes no stored timestamp, so the
\* sliding-window one may answer from an expired oldest timestamp (0 by the
\* clamp).
C20_WaitPureRead ==
    [][\A u \in Users : Did("time_until_next_allowed", u) =>
          /\ user_messages' = user_messages
          /\ user_last_message' = user_last_message
          /\ hist' = hist
          /\ Sliding => lastOp'.ret = SwWait(user_messages, u, lastOp'.at)
          /\ Throttling => lastOp'.ret = ThWait(user_last_message, u, lastOp'.at)
          /\ (Sliding /\ window_size > 0 /\ u \in DOMAIN user_messages
                /\ user_messages[u][1] <= lastOp'.at - window_size)
                => (lastOp'.ret = 0 /\ u \in DOMAIN user_messages')]_vars

\* a wait of 0 was answered from a single stored timestamp that expired
\* before the reading and is still stored
C20_Witness ==
    /\ Sliding /\ max_requests = 1 /\ window_size > 0
    /\ lastOp.op = "time_until_next_allowed" /\ lastOp.ret = 0
    /\ lastOp.user \in DOMAIN user_messages
    /\ user_messages[lastOp.user][1] < lastOp.at - window_size

====
